---------------------------- MODULE Spec2Model ----------------------------
(***************************************************************************)
(* Model of the orders microservice (OrdersService, orders.service.ts).    *)
(*                                                                         *)
(* The order store is the sequence `orders` (an order's id is its position *)
(* in the store's ordering; orders are never deleted).  Every request is   *)
(* handled in a slot of `req`; a handler is cut into steps at its awaits:  *)
(* sending a message, receiving its reply, one store call.  `catalog` is   *)
(* the product service's data, which this service only reads by message.   *)
(***************************************************************************)
EXTENDS Integers, Sequences, FiniteSets, TLC

VARIABLES orders, catalog, req

vars == <<orders, catalog, req>>

---------------------------------------------------------------------------
(* Bounds of the model: stored orders, items per create, quantity per      *)
(* item, changes per catalog product.                                      *)

MaxOrders == 2
MaxItems == 2
MaxQty == 2
MaxCatalogChanges == 1

---------------------------------------------------------------------------
(* Data *)

Procs == {"r1", "r2"}

NULL == "null"

OrderStatus == {"PENDING", "PAID", "DELIVERED", "CANCELLED"}

KnownProducts == {1, 2}

ProductIds == {1, 2, 3}

OrderIds == 1..(MaxOrders + 1)

Pages == {1, 2, 3}

Limits == {1, 2}

Payments ==
    { [stripePaymentId |-> "ch_1", receiptUrl |-> "url_1"],
      [stripePaymentId |-> "ch_2", receiptUrl |-> "url_2"] }

PaidOrderDto ==
    { [orderId |-> id, stripePaymentId |-> pay.stripePaymentId,
       receiptUrl |-> pay.receiptUrl] : id \in OrderIds, pay \in Payments }

(* OrderItemDto also carries a price, which no handler reads. *)
OrderItemDto == [productId : ProductIds, quantity : 1..MaxQty]

CreateOrderDto == UNION {[1..n -> OrderItemDto] : n \in 1..MaxItems}

SampleCarts ==
    { <<[productId |-> 1, quantity |-> 2], [productId |-> 2, quantity |-> 1]>>,
      <<[productId |-> 2, quantity |-> 1], [productId |-> 3, quantity |-> 1]>> }

ConcCart == <<[productId |-> 1, quantity |-> 1]>>

InitialCatalog ==
    (1 :> [id |-> 1, name |-> "A", price |-> 10, rev |-> 0]) @@
    (2 :> [id |-> 2, name |-> "B", price |-> 5, rev |-> 0])

Renamed(name) ==
    CASE name = "A" -> "A2"
      [] name = "B" -> "B2"
      [] OTHER -> "A"

SchemaDefaults ==
    [status |-> "PENDING", paid |-> FALSE, paidAt |-> NULL,
     stripeChargeId |-> NULL, OrderReceipt |-> <<>>]

NoResult == [code |-> "NONE", msg |-> "", val |-> <<>>]

IdleRequest ==
    [op |-> "none", pc |-> "idle", arg |-> <<>>, loc |-> <<>>,
     sent |-> <<>>, writes |-> 0, res |-> NoResult]

Free(p) == req[p].pc \in {"idle", "done"}

Begin(p, op, pc, arg, loc, sent) ==
    req' = [req EXCEPT ![p] =
              [op |-> op, pc |-> pc, arg |-> arg, loc |-> loc,
               sent |-> sent, writes |-> 0, res |-> NoResult]]

Finish(p, code, msg, val, wrote) ==
    req' = [req EXCEPT ![p].pc = "done",
                       ![p].writes = @ + wrote,
                       ![p].res = [code |-> code, msg |-> msg, val |-> val]]

---------------------------------------------------------------------------
(* Catalog service (external): validate_product.  A call either fails (an  *)
(* error or a timeout) or returns the records of the requested ids that    *)
(* the catalog holds, each once; product 3 is never in the catalog.        *)

RECURSIVE SelectSeq2(_, _)
SelectSeq2(s, keep) ==
    IF s = <<>> THEN <<>>
    ELSE IF Head(s) \in keep
         THEN <<Head(s)>> \o SelectSeq2(Tail(s), keep \ {Head(s)})
         ELSE SelectSeq2(Tail(s), keep)

Public(product) == [id |-> product.id, name |-> product.name, price |-> product.price]

ValidateProducts(ids) ==
    LET found == SelectSeq2(ids, KnownProducts)
    IN  [i \in 1..Len(found) |-> Public(catalog[found[i]])]

CatalogReplies(ids) ==
    { [err |-> TRUE, products |-> <<>>],
      [err |-> FALSE, products |-> ValidateProducts(ids)] }

FindAssign(products, id) ==
    IF products = <<>> THEN <<>> ELSE <<products[1]>>

Find(products, id) ==
    LET hits == {i \in 1..Len(products) : products[i].id = id}
    IN  IF hits = {} THEN <<>>
        ELSE <<products[CHOOSE i \in hits : \A j \in hits : i <= j]>>

CatalogChange(pid) ==
    /\ catalog[pid].rev < MaxCatalogChanges
    /\ catalog' = [catalog EXCEPT ![pid].name = Renamed(@),
                                  ![pid].price = @ + 1,
                                  ![pid].rev = @ + 1]
    /\ UNCHANGED <<orders, req>>

---------------------------------------------------------------------------
(* create *)

ProductsIds(items) == [i \in 1..Len(items) |-> items[i].productId]

AllFound(items, products) ==
    \A i \in 1..Len(items) : Find(products, items[i].productId) # <<>>

RECURSIVE ReduceAmount(_, _, _)
ReduceAmount(items, products, acc) ==
    IF items = <<>> THEN acc
    ELSE LET item == Head(items)
             product == Find(products, item.productId)[1]
         IN  ReduceAmount(Tail(items), products, acc + product.price * item.quantity)

RECURSIVE ReduceItems(_, _)
ReduceItems(items, acc) ==
    IF items = <<>> THEN acc
    ELSE ReduceItems(Tail(items), acc + Head(items).quantity)

TotalAmountNoQuantity(items, products) ==
    ReduceAmount([i \in 1..Len(items) |->
                    [productId |-> items[i].productId, quantity |-> 1]],
                 products, 0)

TotalAmount(items, products) == ReduceAmount(items, products, 0)

TotalItems(items) == ReduceItems(items, 0)

OrderItemsDataLineTotal(items, products) ==
    [i \in 1..Len(items) |->
        [price |-> Find(products, items[i].productId)[1].price * items[i].quantity,
         productId |-> items[i].productId,
         quantity |-> items[i].quantity]]

OrderItemsData(items, products) ==
    [i \in 1..Len(items) |->
        [price |-> Find(products, items[i].productId)[1].price,
         productId |-> items[i].productId,
         quantity |-> items[i].quantity]]

NewOrderFirstItem(id, totalAmount, totalItems, orderItems) ==
    [id |-> id, totalAmount |-> totalAmount, totalItems |-> totalItems,
     status |-> SchemaDefaults.status, paid |-> SchemaDefaults.paid,
     paidAt |-> SchemaDefaults.paidAt,
     stripeChargeId |-> SchemaDefaults.stripeChargeId,
     OrderItems |-> <<orderItems[1]>>, OrderReceipt |-> SchemaDefaults.OrderReceipt]

NewOrder(id, totalAmount, totalItems, orderItems) ==
    [id |-> id, totalAmount |-> totalAmount, totalItems |-> totalItems,
     status |-> SchemaDefaults.status, paid |-> SchemaDefaults.paid,
     paidAt |-> SchemaDefaults.paidAt,
     stripeChargeId |-> SchemaDefaults.stripeChargeId,
     OrderItems |-> orderItems, OrderReceipt |-> SchemaDefaults.OrderReceipt]

WithItems(order) ==
    [id |-> order.id, totalAmount |-> order.totalAmount,
     totalItems |-> order.totalItems, status |-> order.status,
     paid |-> order.paid, paidAt |-> order.paidAt,
     stripeChargeId |-> order.stripeChargeId, OrderItems |-> order.OrderItems]

Plain(order) ==
    [id |-> order.id, totalAmount |-> order.totalAmount,
     totalItems |-> order.totalItems, status |-> order.status,
     paid |-> order.paid, paidAt |-> order.paidAt,
     stripeChargeId |-> order.stripeChargeId]

NamedRepriced(order, products) ==
    [order EXCEPT !.OrderItems =
        [i \in 1..Len(@) |->
            [price |-> Find(products, @[i].productId)[1].price,
             productId |-> @[i].productId,
             quantity |-> @[i].quantity,
             name |-> Find(products, @[i].productId)[1].name]]]

Named(order, products) ==
    [order EXCEPT !.OrderItems =
        [i \in 1..Len(@) |->
            [price |-> @[i].price, productId |-> @[i].productId,
             quantity |-> @[i].quantity,
             name |-> Find(products, @[i].productId)[1].name]]]

CreatesInFlight == Cardinality({q \in Procs : req[q].op = "create" /\ ~Free(q)})

CreateSend(p, items) ==
    /\ Free(p)
    /\ Len(orders) + CreatesInFlight < MaxOrders
    /\ Begin(p, "create", "awaitCatalog", items, <<>>,
             <<[pattern |-> "validate_product", data |-> ProductsIds(items)]>>)
    /\ UNCHANGED <<orders, catalog>>

CreateReply(p) ==
    /\ req[p].op = "create"
    /\ req[p].pc = "awaitCatalog"
    /\ \E reply \in CatalogReplies(req[p].sent[1].data) :
          IF reply.err
          THEN Finish(p, "BAD_REQUEST", "catalog call failed", <<>>, 0)
          ELSE IF ~AllFound(req[p].arg, reply.products)
          THEN Finish(p, "BAD_REQUEST", "product not found", <<>>, 0)
          ELSE req' = [req EXCEPT
                  ![p].pc = "awaitStore",
                  ![p].loc = <<[products |-> reply.products,
                                totalAmount |-> TotalAmount(req[p].arg, reply.products),
                                totalItems |-> TotalItems(req[p].arg)]>>]
    /\ UNCHANGED <<orders, catalog>>

CreatePersist(p) ==
    /\ req[p].op = "create"
    /\ req[p].pc = "awaitStore"
    /\ LET l == req[p].loc[1]
           order == NewOrder(Len(orders) + 1, l.totalAmount, l.totalItems,
                             OrderItemsData(req[p].arg, l.products))
       IN  /\ orders' = Append(orders, order)
           /\ Finish(p, "OK", "", <<Named(WithItems(order), l.products)>>, 1)
    /\ UNCHANGED catalog

CreatePersistFailsPartial(p) ==
    /\ req[p].op = "create"
    /\ req[p].pc = "awaitStore"
    /\ LET l == req[p].loc[1]
       IN  orders' = Append(orders,
                            NewOrder(Len(orders) + 1, l.totalAmount, l.totalItems, <<>>))
    /\ Finish(p, "BAD_REQUEST", "store write failed", <<>>, 0)
    /\ UNCHANGED catalog

CreatePersistFails(p) ==
    /\ req[p].op = "create"
    /\ req[p].pc = "awaitStore"
    /\ Finish(p, "BAD_REQUEST", "store write failed", <<>>, 0)
    /\ UNCHANGED <<orders, catalog>>

---------------------------------------------------------------------------
(* Order store reads *)

Exists(id) == id \in 1..Len(orders)

Matches(order, status) == status = NULL \/ order.status = status

RECURSIVE Where(_, _)
Where(rows, status) ==
    IF rows = <<>> THEN <<>>
    ELSE IF Matches(Head(rows), status)
         THEN <<Head(rows)>> \o Where(Tail(rows), status)
         ELSE Where(Tail(rows), status)

Count(status) == Len(Where(orders, status))

SkipTake(rows, skip, take) ==
    LET n == IF Len(rows) - skip < 0 THEN 0
             ELSE IF Len(rows) - skip < take THEN Len(rows) - skip ELSE take
    IN  [i \in 1..n |-> rows[skip + i]]

FindMany(status, skip, take) ==
    LET rows == SkipTake(Where(orders, status), skip, take)
    IN  [i \in 1..Len(rows) |-> Plain(rows[i])]

CeilFloor(total, perPage) == total \div perPage

Ceil(total, perPage) == (total + perPage - 1) \div perPage

---------------------------------------------------------------------------
(* findAll *)

FindAllCall(p, status, page, limit) ==
    /\ Free(p)
    /\ Begin(p, "findAll", "awaitCount",
             [status |-> status, page |-> page, limit |-> limit], <<>>, <<>>)
    /\ UNCHANGED <<orders, catalog>>

FindAllCount(p) ==
    /\ req[p].op = "findAll"
    /\ req[p].pc = "awaitCount"
    /\ req' = [req EXCEPT ![p].pc = "awaitFindMany",
                          ![p].loc = <<[totalPages |-> Count(req[p].arg.status)]>>]
    /\ UNCHANGED <<orders, catalog>>

FindAllFindMany(p) ==
    /\ req[p].op = "findAll"
    /\ req[p].pc = "awaitFindMany"
    /\ LET dto == req[p].arg
           totalPages == req[p].loc[1].totalPages
       IN  Finish(p, "OK", "",
                  <<[data |-> FindMany(dto.status, (dto.page - 1) * dto.limit, dto.limit),
                     meta |-> [total |-> totalPages,
                               page |-> dto.page,
                               lastPage |-> Ceil(totalPages, dto.limit)]]>>, 0)
    /\ UNCHANGED <<orders, catalog>>

---------------------------------------------------------------------------
(* findOne *)

FindOneCall(p, id) ==
    /\ Free(p)
    /\ Begin(p, "findOne", "awaitFindUnique", [id |-> id], <<>>, <<>>)
    /\ UNCHANGED <<orders, catalog>>

FindOneFindUniqueSendsFirst(p) ==
    /\ req[p].op = "findOne"
    /\ req[p].pc = "awaitFindUnique"
    /\ LET id == req[p].arg.id
       IN  IF ~Exists(id)
           THEN req' = [req EXCEPT
                   ![p].pc = "done",
                   ![p].sent = <<[pattern |-> "validate_product", data |-> <<>>]>>,
                   ![p].res = [code |-> "NOT_FOUND", msg |-> "order not found",
                               val |-> <<>>]]
           ELSE req' = [req EXCEPT
                   ![p].pc = "awaitCatalog",
                   ![p].loc = <<WithItems(orders[id])>>,
                   ![p].sent = <<[pattern |-> "validate_product",
                                  data |-> ProductsIds(orders[id].OrderItems)]>>]
    /\ UNCHANGED <<orders, catalog>>

FindOneFindUnique(p) ==
    /\ req[p].op = "findOne"
    /\ req[p].pc = "awaitFindUnique"
    /\ LET id == req[p].arg.id
       IN  IF ~Exists(id)
           THEN Finish(p, "NOT_FOUND", "order not found", <<>>, 0)
           ELSE req' = [req EXCEPT
                   ![p].pc = "awaitCatalog",
                   ![p].loc = <<WithItems(orders[id])>>,
                   ![p].sent = <<[pattern |-> "validate_product",
                                  data |-> ProductsIds(orders[id].OrderItems)]>>]
    /\ UNCHANGED <<orders, catalog>>

FindOneReply(p) ==
    /\ req[p].op = "findOne"
    /\ req[p].pc = "awaitCatalog"
    /\ \E reply \in CatalogReplies(req[p].sent[1].data) :
          IF reply.err
          THEN Finish(p, "INTERNAL", "catalog call failed", <<>>, 0)
          ELSE IF ~AllFound(req[p].loc[1].OrderItems, reply.products)
          THEN Finish(p, "INTERNAL", "name of undefined", <<>>, 0)
          ELSE Finish(p, "OK", "", <<Named(req[p].loc[1], reply.products)>>, 0)
    /\ UNCHANGED <<orders, catalog>>

---------------------------------------------------------------------------
(* changeOrderStatus *)

ChangeOrderStatusCall(p, id, status) ==
    /\ Free(p)
    /\ Begin(p, "changeOrderStatus", "awaitFindUnique",
             [id |-> id, status |-> status], <<>>, <<>>)
    /\ UNCHANGED <<orders, catalog>>

ChangeOrderStatusFindUniqueNoSameCheck(p) ==
    /\ req[p].op = "changeOrderStatus"
    /\ req[p].pc = "awaitFindUnique"
    /\ LET dto == req[p].arg
       IN  IF ~Exists(dto.id)
           THEN Finish(p, "NOT_FOUND", "order not found", <<>>, 0)
           ELSE req' = [req EXCEPT ![p].pc = "awaitUpdate"]
    /\ UNCHANGED <<orders, catalog>>

ChangeOrderStatusFindUniqueNoNullCheck(p) ==
    /\ req[p].op = "changeOrderStatus"
    /\ req[p].pc = "awaitFindUnique"
    /\ LET dto == req[p].arg
       IN  IF ~Exists(dto.id)
           THEN Finish(p, "INTERNAL", "status of null", <<>>, 0)
           ELSE IF orders[dto.id].status = dto.status
           THEN Finish(p, "BAD_REQUEST", "already has status", <<>>, 0)
           ELSE req' = [req EXCEPT ![p].pc = "awaitUpdate"]
    /\ UNCHANGED <<orders, catalog>>

ChangeOrderStatusFindUniquePaidIsFinal(p) ==
    /\ req[p].op = "changeOrderStatus"
    /\ req[p].pc = "awaitFindUnique"
    /\ LET dto == req[p].arg
       IN  IF ~Exists(dto.id)
           THEN Finish(p, "NOT_FOUND", "order not found", <<>>, 0)
           ELSE IF orders[dto.id].status = dto.status
           THEN Finish(p, "BAD_REQUEST", "already has status", <<>>, 0)
           ELSE IF orders[dto.id].status = "PAID"
           THEN Finish(p, "BAD_REQUEST", "transition not allowed", <<>>, 0)
           ELSE req' = [req EXCEPT ![p].pc = "awaitUpdate"]
    /\ UNCHANGED <<orders, catalog>>

ChangeOrderStatusFindUnique(p) ==
    /\ req[p].op = "changeOrderStatus"
    /\ req[p].pc = "awaitFindUnique"
    /\ LET dto == req[p].arg
       IN  IF ~Exists(dto.id)
           THEN Finish(p, "NOT_FOUND", "order not found", <<>>, 0)
           ELSE IF orders[dto.id].status = dto.status
           THEN Finish(p, "BAD_REQUEST", "already has status", <<>>, 0)
           ELSE req' = [req EXCEPT ![p].pc = "awaitUpdate"]
    /\ UNCHANGED <<orders, catalog>>

ChangeOrderStatusUpdateNoData(p) ==
    /\ req[p].op = "changeOrderStatus"
    /\ req[p].pc = "awaitUpdate"
    /\ Finish(p, "OK", "", <<Plain(orders[req[p].arg.id])>>, 1)
    /\ UNCHANGED <<orders, catalog>>

ChangeOrderStatusUpdate(p) ==
    /\ req[p].op = "changeOrderStatus"
    /\ req[p].pc = "awaitUpdate"
    /\ LET dto == req[p].arg
       IN  /\ orders' = [orders EXCEPT ![dto.id].status = dto.status]
           /\ Finish(p, "OK", "", <<Plain(orders'[dto.id])>>, 1)
    /\ UNCHANGED catalog

---------------------------------------------------------------------------
(* createPaymentSession *)

PaymentPayloadUnitQuantity(order) ==
    [orderId |-> order.id, currency |-> "usd",
     items |-> [i \in 1..Len(order.OrderItems) |->
                  [name |-> order.OrderItems[i].name,
                   price |-> order.OrderItems[i].price,
                   quantity |-> 1]]]

PaymentPayload(order) ==
    [orderId |-> order.id, currency |-> "usd",
     items |-> [i \in 1..Len(order.OrderItems) |->
                  [name |-> order.OrderItems[i].name,
                   price |-> order.OrderItems[i].price,
                   quantity |-> order.OrderItems[i].quantity]]]

EnrichedOrders ==
    {Named(WithItems(orders[i]), ValidateProducts(ProductsIds(orders[i].OrderItems))) :
        i \in 1..Len(orders)}

PaymentReplies(payload) ==
    { [err |-> TRUE, session |-> <<>>],
      [err |-> FALSE, session |-> <<[sessionId |-> payload.orderId]>>] }

CreatePaymentSession(p, order) ==
    /\ Free(p)
    /\ Begin(p, "createPaymentSession", "awaitPayment", order, <<>>,
             <<[pattern |-> "create.payment.session", data |-> PaymentPayload(order)]>>)
    /\ UNCHANGED <<orders, catalog>>

CreatePaymentSessionReply(p) ==
    /\ req[p].op = "createPaymentSession"
    /\ req[p].pc = "awaitPayment"
    /\ \E reply \in PaymentReplies(req[p].sent[1].data) :
          IF reply.err
          THEN Finish(p, "INTERNAL", "payment call failed", <<>>, 0)
          ELSE Finish(p, "OK", "", reply.session, 0)
    /\ UNCHANGED <<orders, catalog>>

---------------------------------------------------------------------------
(* paidOrder *)

(* The store's Order-OrderReceipt relation is one to one: a nested create *)
(* of a receipt is accepted only for an order that has none, and a         *)
(* rejected nested create rejects the whole update.                        *)
OneReceiptPerOrder(order) == order.OrderReceipt = <<>>

PaidOrderDataNoPaidFlag(order, dto) ==
    [order EXCEPT !.status = "PAID",
                  !.paidAt = "now",
                  !.stripeChargeId = dto.stripePaymentId,
                  !.OrderReceipt = Append(@, [receiptUrl |-> dto.receiptUrl])]

PaidOrderData(order, dto) ==
    [order EXCEPT !.status = "PAID",
                  !.paid = TRUE,
                  !.paidAt = "now",
                  !.stripeChargeId = dto.stripePaymentId,
                  !.OrderReceipt = Append(@, [receiptUrl |-> dto.receiptUrl])]

PaidOrderCall(p, dto) ==
    /\ Free(p)
    /\ Begin(p, "paidOrder", "awaitUpdate", dto, <<>>, <<>>)
    /\ UNCHANGED <<orders, catalog>>

PaidOrderUpdateReplaces(p) ==
    /\ req[p].op = "paidOrder"
    /\ req[p].pc = "awaitUpdate"
    /\ LET dto == req[p].arg
       IN  IF ~Exists(dto.orderId)
           THEN /\ Finish(p, "INTERNAL", "record to update not found", <<>>, 0)
                /\ UNCHANGED orders
           ELSE /\ orders' = [orders EXCEPT ![dto.orderId] =
                                 PaidOrderData([@ EXCEPT !.OrderReceipt = <<>>], dto)]
                /\ Finish(p, "OK", "", <<Plain(orders'[dto.orderId])>>, 1)
    /\ UNCHANGED catalog

PaidOrderUpdateUpserts(p) ==
    /\ req[p].op = "paidOrder"
    /\ req[p].pc = "awaitUpdate"
    /\ LET dto == req[p].arg
       IN  IF ~Exists(dto.orderId)
           THEN /\ orders' = Append(orders,
                                 PaidOrderData(NewOrder(Len(orders) + 1, 0, 0, <<>>), dto))
                /\ Finish(p, "OK", "", <<Plain(orders'[Len(orders')])>>, 1)
           ELSE IF ~OneReceiptPerOrder(orders[dto.orderId])
           THEN /\ Finish(p, "INTERNAL", "receipt already exists", <<>>, 0)
                /\ UNCHANGED orders
           ELSE /\ orders' = [orders EXCEPT ![dto.orderId] = PaidOrderData(@, dto)]
                /\ Finish(p, "OK", "", <<Plain(orders'[dto.orderId])>>, 1)
    /\ UNCHANGED catalog

PaidOrderUpdate(p) ==
    /\ req[p].op = "paidOrder"
    /\ req[p].pc = "awaitUpdate"
    /\ LET dto == req[p].arg
       IN  IF ~Exists(dto.orderId)
           THEN /\ Finish(p, "INTERNAL", "record to update not found", <<>>, 0)
                /\ UNCHANGED orders
           ELSE IF ~OneReceiptPerOrder(orders[dto.orderId])
           THEN /\ Finish(p, "INTERNAL", "receipt already exists", <<>>, 0)
                /\ UNCHANGED orders
           ELSE /\ orders' = [orders EXCEPT ![dto.orderId] = PaidOrderData(@, dto)]
                /\ Finish(p, "OK", "", <<Plain(orders'[dto.orderId])>>, 1)
    /\ UNCHANGED catalog

---------------------------------------------------------------------------
(* Specifications.  Spec handles one request at a time; SpecCreate is one  *)
(* create call on the empty store over every item list within the bounds,  *)
(* with the catalog changing; SpecCatalog is create and findOne of one order *)
(* with the catalog changing; SpecConc has two requests in flight on the   *)
(* first order.                                                             *)

Init ==
    /\ orders = <<>>
    /\ catalog = InitialCatalog
    /\ req = [p \in Procs |-> IdleRequest]

NextCreate ==
    \/ \E items \in CreateOrderDto : req["r1"].pc = "idle" /\ CreateSend("r1", items)
    \/ CreateReply("r1")
    \/ CreatePersist("r1")
    \/ CreatePersistFails("r1")
    \/ \E pid \in KnownProducts : CatalogChange(pid)

SpecCreate == Init /\ [][NextCreate]_vars

Next ==
    \/ \E items \in SampleCarts : CreateSend("r1", items)
    \/ CreateReply("r1")
    \/ CreatePersist("r1")
    \/ CreatePersistFails("r1")
    \/ \E status \in OrderStatus \cup {NULL}, page \in Pages, limit \in Limits :
          FindAllCall("r1", status, page, limit)
    \/ FindAllCount("r1")
    \/ FindAllFindMany("r1")
    \/ \E id \in OrderIds : FindOneCall("r1", id)
    \/ FindOneFindUnique("r1")
    \/ FindOneReply("r1")
    \/ \E id \in OrderIds, status \in OrderStatus : ChangeOrderStatusCall("r1", id, status)
    \/ ChangeOrderStatusFindUnique("r1")
    \/ ChangeOrderStatusUpdate("r1")
    \/ \E order \in EnrichedOrders : CreatePaymentSession("r1", order)
    \/ CreatePaymentSessionReply("r1")
    \/ \E dto \in PaidOrderDto : PaidOrderCall("r1", dto)
    \/ PaidOrderUpdate("r1")

Spec == Init /\ [][Next]_vars

ConcPaidOrderDto == {dto \in PaidOrderDto : dto.orderId = 1}

NextConc ==
    \/ \E p \in Procs :
          orders = <<>> /\ CreatesInFlight = 0 /\ CreateSend(p, ConcCart)
    \/ \E p \in Procs : CreateReply(p)
    \/ \E p \in Procs : CreatePersist(p)
    \/ \E p \in Procs : CreatePersistFails(p)
    \/ \E p \in Procs, status \in {NULL, "PENDING"}, limit \in Limits :
          FindAllCall(p, status, 1, limit)
    \/ \E p \in Procs : FindAllCount(p)
    \/ \E p \in Procs : FindAllFindMany(p)
    \/ \E p \in Procs, status \in OrderStatus : ChangeOrderStatusCall(p, 1, status)
    \/ \E p \in Procs : ChangeOrderStatusFindUnique(p)
    \/ \E p \in Procs : ChangeOrderStatusUpdate(p)
    \/ \E p \in Procs, dto \in ConcPaidOrderDto : PaidOrderCall(p, dto)
    \/ \E p \in Procs : PaidOrderUpdate(p)

SpecConc == Init /\ [][NextConc]_vars

CatalogCart ==
    <<[productId |-> 1, quantity |-> 2], [productId |-> 2, quantity |-> 1]>>

NextCatalog ==
    \/ orders = <<>> /\ CreateSend("r1", CatalogCart)
    \/ CreateReply("r1")
    \/ CreatePersist("r1")
    \/ CreatePersistFails("r1")
    \/ \E id \in OrderIds : FindOneCall("r1", id)
    \/ FindOneFindUnique("r1")
    \/ FindOneReply("r1")
    \/ \E pid \in KnownProducts : CatalogChange(pid)

SpecCatalog == Init /\ [][NextCatalog]_vars

---------------------------------------------------------------------------
(* Properties *)

StoredIds == 1..Len(orders)

Is(p, op) == req[p].op = op

Done(p, op) == req[p].op = op /\ req[p].pc = "done"

Returned(p, op) == Done(p, op) /\ req[p].res.code = "OK"

Failed(p, op, code) == Done(p, op) /\ req[p].res.code = code

Leaves(p, pc) == req[p].pc = pc /\ req'[p].pc # pc

RECURSIVE Sigma(_, _)
Sigma(f, n) == IF n = 0 THEN 0 ELSE f[n] + Sigma(f, n - 1)

PriceOf(products, id) ==
    (CHOOSE q \in {products[i] : i \in 1..Len(products)} : q.id = id).price

AllKnown(items) == \A i \in 1..Len(items) : items[i].productId \in KnownProducts

(* C1: in every reachable state each stored order has paid = TRUE iff its  *)
(* status is PAID, iff paidAt is set, iff an OrderReceipt exists for it.   *)
C1_PaidIffStatusPaid ==
    \A i \in StoredIds :
        LET o == orders[i]
        IN  /\ o.paid <=> (o.status = "PAID")
            /\ (o.status = "PAID") <=> (o.paidAt # NULL)
            /\ (o.paidAt # NULL) <=> (o.OrderReceipt # <<>>)

(* C2: a create whose items all name known products never fails for a      *)
(* missing product, and the order it persists and returns has totalAmount  *)
(* = sum of (catalog price of the item's product * quantity) over the      *)
(* requested items and totalItems = sum of the quantities.                 *)
C2_CreateTotals ==
    \A p \in Procs :
        /\ Done(p, "create") /\ AllKnown(req[p].arg)
              => req[p].res.msg # "product not found"
        /\ Returned(p, "create") =>
              LET items == req[p].arg
                  products == req[p].loc[1].products
                  order == req[p].res.val[1]
                  amount == Sigma([i \in 1..Len(items) |->
                                     PriceOf(products, items[i].productId)
                                       * items[i].quantity], Len(items))
                  count == Sigma([i \in 1..Len(items) |-> items[i].quantity],
                                 Len(items))
              IN  /\ AllKnown(items)
                  /\ order.totalAmount = amount
                  /\ order.totalItems = count
                  /\ order.id \in StoredIds
                  /\ orders[order.id].totalAmount = amount
                  /\ orders[order.id].totalItems = count

C2_Witness ==
    /\ Returned("r1", "create")
    /\ req["r1"].arg = <<[productId |-> 1, quantity |-> 2],
                         [productId |-> 2, quantity |-> 1]>>
    /\ PriceOf(req["r1"].loc[1].products, 1) = 10
    /\ PriceOf(req["r1"].loc[1].products, 2) = 5
    /\ req["r1"].res.val[1].totalAmount = 25
    /\ req["r1"].res.val[1].totalItems = 3
    /\ orders[1].totalAmount = 25
    /\ orders[1].totalItems = 3

(* C3: a create whose item list names a productId with no match in the     *)
(* catalog's reply fails with BAD_REQUEST in the step that receives the    *)
(* reply, never reaches the store call, and leaves the store as it was: no *)
(* Order and no OrderItem is written.                                      *)
C3_UnknownProductRejected ==
    [][\A p \in Procs :
         (/\ Is(p, "create")
          /\ Leaves(p, "awaitCatalog")
          /\ ~AllKnown(req[p].arg))
         => /\ req'[p].pc = "done"
            /\ req'[p].res.code = "BAD_REQUEST"
            /\ req'[p].res.val = <<>>
            /\ req'[p].writes = 0
            /\ orders' = orders]_vars

C3_Witness ==
    /\ Failed("r1", "create", "BAD_REQUEST")
    /\ req["r1"].res.msg = "product not found"
    /\ \E i, j \in 1..Len(req["r1"].arg) :
          /\ req["r1"].arg[i].productId \in KnownProducts
          /\ req["r1"].arg[j].productId \notin KnownProducts
    /\ orders = <<>>

(* C4: findOne with an id that is not in the store fails with NOT_FOUND in *)
(* the step that reads the store, and sends no message to the catalog.     *)
C4_FindOneNotFound ==
    [][\A p \in Procs :
         (/\ Is(p, "findOne")
          /\ Leaves(p, "awaitFindUnique")
          /\ ~Exists(req[p].arg.id))
         => /\ req'[p].pc = "done"
            /\ req'[p].res.code = "NOT_FOUND"
            /\ req'[p].sent = <<>>
            /\ orders' = orders]_vars

C4_Witness ==
    /\ Failed("r1", "findOne", "NOT_FOUND")
    /\ ~Exists(req["r1"].arg.id)
    /\ req["r1"].sent = <<>>
    /\ orders # <<>>

(* C5: changeOrderStatus(id, s) on an existing order whose stored status   *)
(* is s fails with BAD_REQUEST and leaves the whole store unchanged.       *)
C5_SameStatusRejected ==
    [][\A p \in Procs :
         (/\ Is(p, "changeOrderStatus")
          /\ Leaves(p, "awaitFindUnique")
          /\ Exists(req[p].arg.id)
          /\ orders[req[p].arg.id].status = req[p].arg.status)
         => /\ req'[p].pc = "done"
            /\ req'[p].res.code = "BAD_REQUEST"
            /\ req'[p].writes = 0
            /\ orders' = orders]_vars

C5_Witness ==
    /\ Failed("r1", "changeOrderStatus", "BAD_REQUEST")
    /\ Exists(req["r1"].arg.id)
    /\ orders[req["r1"].arg.id].status = req["r1"].arg.status
    /\ req["r1"].arg.status = "DELIVERED"

(* C6: changeOrderStatus(id, t) on an existing order whose stored status   *)
(* differs from t goes on to the update, which sets the stored status to t *)
(* and returns the updated order; a findOne that returns (no write can     *)
(* intervene between its read and its return here) returns the stored      *)
(* status, hence t after such a change.                                    *)
C6_StatusChangedAndRead ==
    /\ [][\A p \in Procs :
            (/\ Is(p, "changeOrderStatus")
             /\ Leaves(p, "awaitFindUnique")
             /\ Exists(req[p].arg.id)
             /\ orders[req[p].arg.id].status # req[p].arg.status)
            => req'[p].pc = "awaitUpdate"]_vars
    /\ [][\A p \in Procs :
            (Is(p, "changeOrderStatus") /\ Leaves(p, "awaitUpdate"))
            => /\ orders'[req[p].arg.id].status = req[p].arg.status
               /\ req'[p].pc = "done"
               /\ req'[p].res.code = "OK"
               /\ req'[p].res.val[1].id = req[p].arg.id
               /\ req'[p].res.val[1].status = req[p].arg.status]_vars
    /\ [](\A p \in Procs :
            Returned(p, "findOne")
            => /\ req[p].res.val[1].id = req[p].arg.id
               /\ req[p].res.val[1].status = orders[req[p].arg.id].status)

C6_Witness ==
    /\ Returned("r1", "findOne")
    /\ req["r1"].res.val[1].status = "DELIVERED"
    /\ orders[req["r1"].arg.id].status = "DELIVERED"

(* C7: changeOrderStatus with an id that is not in the store fails with    *)
(* NOT_FOUND in the step that reads the store and writes nothing.          *)
C7_UnknownOrderRejected ==
    [][\A p \in Procs :
         (/\ Is(p, "changeOrderStatus")
          /\ Leaves(p, "awaitFindUnique")
          /\ ~Exists(req[p].arg.id))
         => /\ req'[p].pc = "done"
            /\ req'[p].res.code = "NOT_FOUND"
            /\ req'[p].writes = 0
            /\ orders' = orders]_vars

C7_Witness ==
    /\ Failed("r1", "changeOrderStatus", "NOT_FOUND")
    /\ ~Exists(req["r1"].arg.id)
    /\ req["r1"].writes = 0
    /\ orders # <<>>

MatchingIds(status) ==
    {i \in StoredIds : status = NULL \/ orders[i].status = status}

Nth(S, k) == CHOOSE i \in S : Cardinality({j \in S : j <= i}) = k

(* C8: with N stored orders matching the filter (all when there is none),  *)
(* findAll(status, p, L) returns meta.total = N, meta.page = p,            *)
(* meta.lastPage = ceil(N / L), and as data the matching orders at         *)
(* positions (p-1)*L+1 .. p*L of the store's ordering: at most L of them.  *)
C8_FindAllPage ==
    \A p \in Procs :
        Returned(p, "findAll") =>
            LET dto == req[p].arg
                page == req[p].res.val[1]
                M == MatchingIds(dto.status)
                N == Cardinality(M)
                skip == (dto.page - 1) * dto.limit
                window == {k \in (skip + 1)..(skip + dto.limit) : k <= N}
            IN  /\ page.meta.total = N
                /\ page.meta.page = dto.page
                /\ page.meta.lastPage * dto.limit >= N
                /\ (page.meta.lastPage - 1) * dto.limit < N
                /\ Len(page.data) <= dto.limit
                /\ Len(page.data) = Cardinality(window)
                /\ \A k \in 1..Len(page.data) :
                      /\ page.data[k] = Plain(orders[Nth(M, skip + k)])
                      /\ dto.status # NULL => page.data[k].status = dto.status

C8_Witness ==
    /\ Returned("r1", "findAll")
    /\ req["r1"].arg = [status |-> "PENDING", page |-> 1, limit |-> 2]
    /\ Len(orders) = 2
    /\ orders[1].status = "CANCELLED"
    /\ orders[2].status = "PENDING"
    /\ req["r1"].res.val[1].meta = [total |-> 1, page |-> 1, lastPage |-> 1]
    /\ req["r1"].res.val[1].data = <<Plain(orders[2])>>

(* C9: paidOrder on an existing unpaid order sets, in its one store write, *)
(* status = PAID, paid = TRUE, a non-null paidAt and the charge id, and    *)
(* creates exactly one OrderReceipt carrying the given receiptUrl; it      *)
(* touches no other order and returns the updated order.                   *)
C9_PaidOrderWrite ==
    [][\A p \in Procs :
         (/\ Is(p, "paidOrder")
          /\ Leaves(p, "awaitUpdate")
          /\ Exists(req[p].arg.orderId)
          /\ ~orders[req[p].arg.orderId].paid)
         => LET dto == req[p].arg
                before == orders[dto.orderId]
                after == orders'[dto.orderId]
            IN  /\ after.status = "PAID"
                /\ after.paid = TRUE
                /\ after.paidAt # NULL
                /\ after.stripeChargeId = dto.stripePaymentId
                /\ before.OrderReceipt = <<>>
                /\ after.OrderReceipt = <<[receiptUrl |-> dto.receiptUrl]>>
                /\ after.OrderItems = before.OrderItems
                /\ \A i \in StoredIds \ {dto.orderId} : orders'[i] = orders[i]
                /\ Len(orders') = Len(orders)
                /\ req'[p].pc = "done"
                /\ req'[p].writes = 1
                /\ req'[p].res.code = "OK"
                /\ req'[p].res.val = <<Plain(after)>>]_vars

C9_Witness ==
    /\ Returned("r1", "paidOrder")
    /\ req["r1"].arg.orderId = 2
    /\ orders[2].paid
    /\ orders[2].status = "PAID"
    /\ orders[2].OrderReceipt = <<[receiptUrl |-> req["r1"].arg.receiptUrl]>>
    /\ ~orders[1].paid

C11_ItemsAndTotalsFrozen ==
    /\ [](\A i \in StoredIds :
            LET o == orders[i]
                n == Len(o.OrderItems)
            IN  /\ n >= 1
                /\ o.totalAmount =
                      Sigma([k \in 1..n |-> o.OrderItems[k].price
                                              * o.OrderItems[k].quantity], n)
                /\ o.totalItems = Sigma([k \in 1..n |-> o.OrderItems[k].quantity], n))
    /\ [][/\ Len(orders') >= Len(orders)
          /\ \A i \in StoredIds :
                /\ orders'[i].id = orders[i].id
                /\ orders'[i].OrderItems = orders[i].OrderItems
                /\ orders'[i].totalAmount = orders[i].totalAmount
                /\ orders'[i].totalItems = orders[i].totalItems]_vars

C11_Witness ==
    /\ Done("r1", "createPaymentSession")
    /\ Len(orders) = 2
    /\ orders[1].paid
    /\ orders[1].status = "DELIVERED"
    /\ orders[1].totalAmount = 25
    /\ orders[1].totalItems = 3
    /\ Len(orders[1].OrderItems) = 2

(* C12: create stores each item's price from the catalog reply it got; the *)
(* catalog changing a product's name and price afterwards leaves the       *)
(* stored items as they are; a findOne that returns gives every item the   *)
(* stored price and the name the catalog holds when it replies to that     *)
(* findOne.                                                                *)
C12_StoredPriceCurrentName ==
    /\ [][\A p \in Procs :
            (Is(p, "create") /\ Leaves(p, "awaitStore") /\ req'[p].res.code = "OK")
            => LET items == orders'[Len(orders')].OrderItems
               IN  \A k \in 1..Len(items) :
                      items[k].price =
                          PriceOf(req[p].loc[1].products, items[k].productId)]_vars
    /\ [][\A i \in StoredIds : orders'[i].OrderItems = orders[i].OrderItems]_vars
    /\ [][\A p \in Procs :
            (Is(p, "findOne") /\ Leaves(p, "awaitCatalog") /\ req'[p].res.code = "OK")
            => LET stored == orders[req[p].arg.id].OrderItems
                   items == req'[p].res.val[1].OrderItems
               IN  /\ Len(items) = Len(stored)
                   /\ \A k \in 1..Len(items) :
                         /\ items[k].productId = stored[k].productId
                         /\ items[k].quantity = stored[k].quantity
                         /\ items[k].price = stored[k].price
                         /\ items[k].name = catalog[stored[k].productId].name]_vars

C12_Witness ==
    /\ Returned("r1", "findOne")
    /\ req["r1"].res.val[1].OrderItems[1] =
          [price |-> 10, productId |-> 1, quantity |-> 2, name |-> "A2"]
    /\ req["r1"].res.val[1].OrderItems[2].name = "B"
    /\ catalog[1].price = 11
    /\ catalog[1].name = "A2"

(* C13: a create whose catalog call fails, or whose store write fails,     *)
(* ends with BAD_REQUEST carrying that failure's message, in the step the  *)
(* failure arrives in and without a store write; a create sends one        *)
(* validate_product request and never a second one; a failed create leaves *)
(* the store without an Order and without an OrderItem.                    *)
C13_FailedCreateWritesNothing ==
    /\ [](\A p \in Procs :
            /\ Is(p, "create") => Len(req[p].sent) = 1
            /\ (Done(p, "create") /\ req[p].res.code # "OK")
                  => /\ req[p].res.code = "BAD_REQUEST"
                     /\ req[p].res.val = <<>>
                     /\ req[p].writes = 0
                     /\ orders = <<>>)
    /\ [][\A p \in Procs :
            (/\ Is(p, "create")
             /\ Leaves(p, "awaitCatalog")
             /\ AllKnown(req[p].arg)
             /\ req'[p].pc = "done")
            => /\ req'[p].res.code = "BAD_REQUEST"
               /\ req'[p].res.msg = "catalog call failed"
               /\ req'[p].sent = req[p].sent
               /\ orders' = orders]_vars
    /\ [][\A p \in Procs :
            (/\ Is(p, "create")
             /\ Leaves(p, "awaitStore")
             /\ req'[p].res.code # "OK")
            => /\ req'[p].pc = "done"
               /\ req'[p].res.code = "BAD_REQUEST"
               /\ req'[p].res.msg = "store write failed"
               /\ req'[p].sent = req[p].sent
               /\ orders' = orders]_vars

C13_Witness ==
    /\ Failed("r1", "create", "BAD_REQUEST")
    /\ req["r1"].res.msg = "store write failed"
    /\ AllKnown(req["r1"].arg)
    /\ Len(req["r1"].arg) = 2
    /\ Len(req["r1"].sent) = 1
    /\ orders = <<>>

(* C14: createPaymentSession sends exactly one message, to the payment     *)
(* service, holding the order's id, currency "usd" and one {name, price,   *)
(* quantity} entry per order item in order; it returns the reply it gets;  *)
(* neither its send step nor its reply step, successful or failed, changes *)
(* the order store.                                                        *)
C14_PaymentSessionOnlySends ==
    /\ [](\A p \in Procs :
            Is(p, "createPaymentSession") =>
                LET order == req[p].arg
                    payload == req[p].sent[1].data
                IN  /\ Len(req[p].sent) = 1
                    /\ req[p].sent[1].pattern = "create.payment.session"
                    /\ payload.orderId = order.id
                    /\ payload.currency = "usd"
                    /\ Len(payload.items) = Len(order.OrderItems)
                    /\ \A k \in 1..Len(payload.items) :
                          payload.items[k] =
                              [name |-> order.OrderItems[k].name,
                               price |-> order.OrderItems[k].price,
                               quantity |-> order.OrderItems[k].quantity]
                    /\ req[p].writes = 0
                    /\ Returned(p, "createPaymentSession")
                          => req[p].res.val = <<[sessionId |-> order.id]>>
                    /\ (Done(p, "createPaymentSession") /\ req[p].res.code # "OK")
                          => req[p].res.val = <<>>)
    /\ [][\A p \in Procs :
            (\/ /\ Free(p)
                /\ req'[p].op = "createPaymentSession"
                /\ req'[p].pc = "awaitPayment"
             \/ /\ Is(p, "createPaymentSession")
                /\ Leaves(p, "awaitPayment"))
            => orders' = orders]_vars

C14_Witness ==
    /\ Returned("r1", "createPaymentSession")
    /\ req["r1"].arg.id = 2
    /\ Len(req["r1"].sent[1].data.items) = 2
    /\ req["r1"].sent[1].data.items[1] = [name |-> "A", price |-> 10, quantity |-> 2]
    /\ Len(orders) = 2

(* C15: the order a successful create returns is in the store with status  *)
(* PENDING, paid = FALSE, paidAt and the charge id unset and no            *)
(* OrderReceipt, and with exactly one OrderItem per requested item, in     *)
(* order, with that item's productId and quantity.                         *)
C15_CreatedPendingUnpaid ==
    \A p \in Procs :
        Returned(p, "create") =>
            LET items == req[p].arg
                id == req[p].res.val[1].id
            IN  /\ id \in StoredIds
                /\ req[p].writes = 1
                /\ orders[id].status = "PENDING"
                /\ orders[id].paid = FALSE
                /\ orders[id].paidAt = NULL
                /\ orders[id].stripeChargeId = NULL
                /\ orders[id].OrderReceipt = <<>>
                /\ Len(orders[id].OrderItems) = Len(items)
                /\ \A k \in 1..Len(items) :
                      /\ orders[id].OrderItems[k].productId = items[k].productId
                      /\ orders[id].OrderItems[k].quantity = items[k].quantity
                /\ req[p].res.val[1].status = "PENDING"
                /\ Len(req[p].res.val[1].OrderItems) = Len(items)

C15_Witness ==
    /\ Returned("r1", "create")
    /\ Len(req["r1"].arg) = 2
    /\ req["r1"].arg[1].productId = req["r1"].arg[2].productId
    /\ Len(orders[1].OrderItems) = 2
    /\ orders[1].status = "PENDING"
    /\ ~orders[1].paid

(* C16: changeOrderStatus enforces no transition graph: for every stored   *)
(* status s and every target t # s, PAID -> PENDING included, the read     *)
(* step goes on to the update, and the update succeeds and changes the     *)
(* status field of that one order and nothing else (paid, paidAt, the      *)
(* charge id, the receipt, the items and the totals stay as they were).    *)
C16_AnyTransitionOnlyStatus ==
    /\ [][\A p \in Procs : \A s \in OrderStatus : \A t \in OrderStatus \ {s} :
            (/\ Is(p, "changeOrderStatus")
             /\ Leaves(p, "awaitFindUnique")
             /\ req[p].arg.status = t
             /\ Exists(req[p].arg.id)
             /\ orders[req[p].arg.id].status = s)
            => /\ req'[p].pc = "awaitUpdate"
               /\ orders' = orders]_vars
    /\ [][\A p \in Procs :
            (Is(p, "changeOrderStatus") /\ Leaves(p, "awaitUpdate"))
            => /\ req'[p].res.code = "OK"
               /\ orders' = [orders EXCEPT
                                ![req[p].arg.id].status = req[p].arg.status]
               /\ orders'[req[p].arg.id].paid = orders[req[p].arg.id].paid
               /\ orders'[req[p].arg.id].paidAt = orders[req[p].arg.id].paidAt
               /\ orders'[req[p].arg.id].OrderReceipt
                    = orders[req[p].arg.id].OrderReceipt]_vars

C16_Witness ==
    /\ Returned("r1", "changeOrderStatus")
    /\ req["r1"].arg.status = "PENDING"
    /\ orders[req["r1"].arg.id].status = "PENDING"
    /\ orders[req["r1"].arg.id].paid
    /\ orders[req["r1"].arg.id].paidAt # NULL
    /\ orders[req["r1"].arg.id].OrderReceipt # <<>>

(* C17: the validate_product request of a create names every product id    *)
(* the items reference, and names each of them exactly once, also when     *)
(* several items carry the same productId.                                 *)
C17_DistinctProductIdsSent ==
    \A p \in Procs :
        (Is(p, "create") /\ req[p].sent # <<>>) =>
            LET ids == req[p].sent[1].data
                items == req[p].arg
            IN  /\ {ids[i] : i \in 1..Len(ids)}
                     = {items[k].productId : k \in 1..Len(items)}
                /\ \A i, j \in 1..Len(ids) : ids[i] = ids[j] => i = j

(* C18: every successful changeOrderStatus changes the stored status: no   *)
(* request completes its update with OK while the status stored just       *)
(* before that write already equals its target, so of two concurrent       *)
(* requests for the same order and target at most one succeeds.            *)
C18_SuccessChangesStatus ==
    [][\A p \in Procs :
          (/\ Is(p, "changeOrderStatus")
           /\ Leaves(p, "awaitUpdate")
           /\ req'[p].res.code = "OK")
          => orders[req[p].arg.id].status # req[p].arg.status]_vars

(* C19: a findAll result agrees with one snapshot of the store: the number *)
(* of orders in data is min(limit, max(0, meta.total - (page - 1) * limit)),*)
(* so data never holds more orders than meta.total accounts for.           *)
C19_FindAllSingleSnapshot ==
    \A p \in Procs :
        Returned(p, "findAll") =>
            LET r == req[p].res.val[1]
                rest == r.meta.total - (req[p].arg.page - 1) * req[p].arg.limit
                left == IF rest > 0 THEN rest ELSE 0
            IN  Len(r.data) = IF req[p].arg.limit < left
                              THEN req[p].arg.limit ELSE left

(* C20: paidOrder with an orderId that is not in the store fails in its    *)
(* update step and leaves the store as it was: no Order is created, no     *)
(* OrderReceipt is written and the request counts no write.                *)
C20_PaidOrderUnknownIdFails ==
    [][\A p \in Procs :
          (/\ Is(p, "paidOrder")
           /\ Leaves(p, "awaitUpdate")
           /\ ~Exists(req[p].arg.orderId))
          => /\ req'[p].pc = "done"
             /\ req'[p].res.code # "OK"
             /\ req'[p].res.val = <<>>
             /\ req'[p].writes = req[p].writes
             /\ orders' = orders]_vars

C20_Witness ==
    /\ Failed("r1", "paidOrder", "INTERNAL")
    /\ req["r1"].res.msg = "record to update not found"
    /\ ~Exists(req["r1"].arg.orderId)
    /\ orders # <<>>
    /\ \A id \in StoredIds : orders[id].OrderReceipt = <<>>

=============================================================================
